---- MODULE Spec2Model ----
(***************************************************************************)
(* Model of the url-to-image server (server.js): the /screenshot handlers, *)
(* their validation, the per-request capture pipeline captureScreenshot,   *)
(* the race of the pipeline against the 60000 ms timer, and the release of *)
(* the browser session.                                                    *)
(***************************************************************************)
EXTENDS Integers, Sequences, FiniteSets, TLC

(***************************************************************************)
(* Bounds of the model.                                                    *)
(***************************************************************************)
\* number of requests processed concurrently under Spec
NumReqs == 1

Reqs == 1..NumReqs

(***************************************************************************)
(* JavaScript values.  A string is a sequence of one-character strings.    *)
(***************************************************************************)
Undef == [t |-> "undefined"]

NaN == [t |-> "nan"]

Str(s) == [t |-> "string", s |-> s]

Num(n) == [t |-> "number", n |-> n]

Bool(b) == [t |-> "boolean", b |-> b]

\* ToBoolean: undefined, NaN, 0, "" and false are falsy
Truthy(v) ==
  CASE v.t = "undefined" -> FALSE
    [] v.t = "nan"       -> FALSE
    [] v.t = "string"    -> v.s # <<>>
    [] v.t = "number"    -> v.n # 0
    [] v.t = "boolean"   -> v.b

\* a || b
OrElse(a, b) == IF Truthy(a) THEN a ELSE b

Digits == <<"0", "1", "2", "3", "4", "5", "6", "7", "8", "9">>

IsDigit(c) == \E i \in 1..10 : Digits[i] = c

DigitVal(c) == (CHOOSE i \in 1..10 : Digits[i] = c) - 1

IsSpace(c) == c = " "

RECURSIVE DropSpaces(_)
DropSpaces(s) ==
  IF s # <<>> /\ IsSpace(Head(s)) THEN DropSpaces(Tail(s)) ELSE s

RECURSIVE DigitsOf(_, _)
\* decimal value of the number n written out, as a string
DigitsOf(n, acc) ==
  IF n < 10 THEN <<Digits[n + 1]>> \o acc
  ELSE DigitsOf(n \div 10, <<Digits[(n % 10) + 1]>> \o acc)

\* ToString of the values parseInt is handed
ToStr(v) ==
  CASE v.t = "string"    -> v.s
    [] v.t = "number"    -> IF v.n < 0 THEN <<"-">> \o DigitsOf(-v.n, <<>>)
                            ELSE DigitsOf(v.n, <<>>)
    [] v.t = "undefined" -> <<"u", "n", "d", "e", "f", "i", "n", "e", "d">>
    [] v.t = "nan"       -> <<"N", "a", "N">>
    [] v.t = "boolean"   -> IF v.b THEN <<"t", "r", "u", "e">>
                            ELSE <<"f", "a", "l", "s", "e">>

RECURSIVE LeadingDigits(_, _, _)
\* value of the longest prefix of decimal digits of s; <<seen, value>>
LeadingDigits(s, seen, acc) ==
  IF s # <<>> /\ IsDigit(Head(s))
  THEN LeadingDigits(Tail(s), TRUE, acc * 10 + DigitVal(Head(s)))
  ELSE <<seen, acc>>

\* parseInt(v): leading white space, an optional sign, then decimal digits;
\* NaN when no digit follows
parseInt(v) ==
  LET s0   == DropSpaces(ToStr(v))
      neg  == s0 # <<>> /\ Head(s0) = "-"
      sgn  == s0 # <<>> /\ Head(s0) \in {"-", "+"}
      body == IF sgn THEN Tail(s0) ELSE s0
      d    == LeadingDigits(body, FALSE, 0)
  IN IF d[1] THEN Num(IF neg THEN -d[2] ELSE d[2]) ELSE NaN

(***************************************************************************)
(* new URL(string) as far as isValidUrl depends on it: the scheme, the     *)
(* special schemes' host, and failure of the parse.                        *)
(***************************************************************************)
Lower == [c \in {"H", "T", "P", "S", "A", "B"} |->
            CASE c = "H" -> "h" [] c = "T" -> "t" [] c = "P" -> "p"
              [] c = "S" -> "s" [] c = "A" -> "a" [] c = "B" -> "b"]

ToLower(c) == IF c \in DOMAIN Lower THEN Lower[c] ELSE c

IsAlpha(c) ==
  ToLower(c) \in {"a", "b", "c", "d", "e", "f", "g", "h", "i", "j", "k", "l",
                  "m", "n", "o", "p", "q", "r", "s", "t", "u", "v", "w", "x",
                  "y", "z"}

IsSchemeChar(c) == IsAlpha(c) \/ IsDigit(c) \/ c \in {"+", "-", "."}

IsHostChar(c) == IsAlpha(c) \/ IsDigit(c) \/ c \in {"-", "."}

RECURSIVE DropTrailingSpaces(_)
DropTrailingSpaces(s) ==
  IF s # <<>> /\ IsSpace(s[Len(s)])
  THEN DropTrailingSpaces(SubSeq(s, 1, Len(s) - 1)) ELSE s

RECURSIVE TakeWhileScheme(_, _)
\* <<scheme, rest>> where rest begins at the first non-scheme character
TakeWhileScheme(s, acc) ==
  IF s # <<>> /\ IsSchemeChar(Head(s))
  THEN TakeWhileScheme(Tail(s), Append(acc, ToLower(Head(s))))
  ELSE <<acc, s>>

RECURSIVE DropSlashes(_)
DropSlashes(s) ==
  IF s # <<>> /\ Head(s) \in {"/", "\\"} THEN DropSlashes(Tail(s)) ELSE s

RECURSIVE TakeHost(_, _)
TakeHost(s, acc) ==
  IF s # <<>> /\ Head(s) \notin {"/", "\\", "?", "#"}
  THEN TakeHost(Tail(s), Append(acc, Head(s)))
  ELSE acc

SpecialSchemes == {<<"h", "t", "t", "p">>, <<"h", "t", "t", "p", "s">>,
                   <<"f", "t", "p">>, <<"w", "s">>, <<"w", "s", "s">>}

ParseFailure == [ok |-> FALSE, protocol |-> <<>>]

\* new URL(s) without a base: [ok, protocol]; ok = FALSE when it throws
ParseURL(v) ==
  LET s  == DropTrailingSpaces(DropSpaces(ToStr(v)))
      sr == TakeWhileScheme(s, <<>>)
      scheme == sr[1]
      rest   == sr[2]
  IN IF s = <<>> \/ ~IsAlpha(Head(s)) \/ rest = <<>> \/ Head(rest) # ":"
     THEN ParseFailure
     ELSE IF scheme \in SpecialSchemes
          THEN LET host == TakeHost(DropSlashes(Tail(rest)), <<>>)
               IN IF host = <<>> \/ \E i \in 1..Len(host) : ~IsHostChar(host[i])
                  THEN ParseFailure
                  ELSE [ok |-> TRUE, protocol |-> Append(scheme, ":")]
          ELSE [ok |-> TRUE, protocol |-> Append(scheme, ":")]

HttpProtocol == <<"h", "t", "t", "p", ":">>

HttpsProtocol == <<"h", "t", "t", "p", "s", ":">>

\* isValidUrl without the comparison of url.protocol
isValidUrl_AnyScheme(v) == ParseURL(v).ok

\* isValidUrl(string)
isValidUrl(v) ==
  LET url == ParseURL(v)
  IN IF url.ok THEN url.protocol = HttpProtocol \/ url.protocol = HttpsProtocol
     ELSE FALSE

(***************************************************************************)
(* Requests.  A GET request carries its query parameters (strings or       *)
(* absent), a POST request the fields of its JSON body's options object.   *)
(***************************************************************************)
\* the clients (req.ip) the rate limiter tells apart
Clients == {1, 2}

\* a request of client 1
Request(method, url, width, height, quality, fullPage, waitUntil, timeout) ==
  [method |-> method, url |-> url, width |-> width, height |-> height,
   quality |-> quality, fullPage |-> fullPage, waitUntil |-> waitUntil,
   timeout |-> timeout, ip |-> 1]

\* the request q sent by the client ip
From(q, ip) == [q EXCEPT !.ip = ip]

NoRequest == [method |-> "none"]

\* response bodies
ErrUrlRequiredGet == "URL parameter is required"

ErrUrlRequiredPost == "URL is required in request body"

ErrInvalidUrl == "Invalid URL format. Must include http:// or https://"

ErrWidth == "Width must be between 100 and 4000 pixels"

ErrHeight == "Height must be between 100 and 4000 pixels"

ErrCapture == "Failed to capture screenshot"

MsgTimeout == <<"Screenshot request timeout">>

MsgLaunch == "Failed to create browser instance"

NoResponse == [status |-> 0, error |-> "", message |-> <<>>, ctype |-> ""]

ClientError(e) == [status |-> 400, error |-> e, message |-> <<>>, ctype |-> "application/json"]

ServerError(m) == [status |-> 500, error |-> ErrCapture, message |-> m, ctype |-> "application/json"]

ImageResponse == [status |-> 200, error |-> "", message |-> <<>>, ctype |-> "image/webp"]

MsgTooMany == "Too many requests from this IP, please try again later."

\* the rate limiter's answer to a request over the limit
TooManyRequests == [status |-> 429, error |-> MsgTooMany, message |-> <<>>, ctype |-> "text/html"]

\* res.json({status: 'healthy', timestamp, uptime})
HealthResponse == [status |-> 200, error |-> "", message |-> <<>>, ctype |-> "application/json"]

\* max of the rate limiter: requests of one client served per window
RateLimitMax == 100

\* the limiter's count after one more request; counts above the limit are
\* not told apart
Hit(n) == IF n > RateLimitMax THEN n ELSE n + 1

\* a limiter that lets the request after the last allowed one through
Limited_OffByOne(n) == n > RateLimitMax + 1

\* the limiter answers 429 to the request that makes the count n
Limited(n) == n > RateLimitMax

\* options handed to captureScreenshot
Options(width, height, quality, fullPage, waitUntil, timeout) ==
  [width |-> width, height |-> height, quality |-> quality,
   fullPage |-> fullPage, waitUntil |-> waitUntil, timeout |-> timeout]

NoOptions == Options(Undef, Undef, Undef, Undef, Undef, Undef)

Reject(e) == [accept |-> FALSE, resp |-> ClientError(e), options |-> NoOptions]

Accept(o) == [accept |-> TRUE, resp |-> NoResponse, options |-> o]

\* the GET handler with the bounds 100 and 4000 themselves rejected
GetValidate_ExclusiveBounds(q) ==
  LET widthNum  == OrElse(parseInt(q.width), Num(1200))
      heightNum == OrElse(parseInt(q.height), Num(800))
  IN IF ~Truthy(q.url) THEN Reject(ErrUrlRequiredGet)
     ELSE IF ~isValidUrl(q.url) THEN Reject(ErrInvalidUrl)
     ELSE IF widthNum.n <= 100 \/ widthNum.n >= 4000 THEN Reject(ErrWidth)
     ELSE IF heightNum.n <= 100 \/ heightNum.n >= 4000 THEN Reject(ErrHeight)
     ELSE Accept(Options(widthNum, heightNum, OrElse(q.quality, Num(80)),
                         q.fullPage,
                         OrElse(q.waitUntil, Str(<<"networkidle2">>)),
                         OrElse(q.timeout, Num(30000))))

\* the GET handler handing width and height on as they were sent
GetValidate_RawDimensions(q) ==
  IF ~Truthy(q.url) THEN Reject(ErrUrlRequiredGet)
  ELSE IF ~isValidUrl(q.url) THEN Reject(ErrInvalidUrl)
  ELSE Accept(Options(q.width, q.height, OrElse(q.quality, Num(80)),
                      q.fullPage,
                      OrElse(q.waitUntil, Str(<<"networkidle2">>)),
                      OrElse(q.timeout, Num(30000))))

\* app.get('/screenshot'): the synchronous part up to the call of
\* captureScreenshot
GetValidate(q) ==
  LET widthNum  == OrElse(parseInt(q.width), Num(1200))
      heightNum == OrElse(parseInt(q.height), Num(800))
  IN IF ~Truthy(q.url) THEN Reject(ErrUrlRequiredGet)
     ELSE IF ~isValidUrl(q.url) THEN Reject(ErrInvalidUrl)
     ELSE IF widthNum.n < 100 \/ widthNum.n > 4000 THEN Reject(ErrWidth)
     ELSE IF heightNum.n < 100 \/ heightNum.n > 4000 THEN Reject(ErrHeight)
     ELSE Accept(Options(widthNum, heightNum, OrElse(q.quality, Num(80)),
                         q.fullPage,
                         OrElse(q.waitUntil, Str(<<"networkidle2">>)),
                         OrElse(q.timeout, Num(30000))))

\* the POST handler without its check of a missing url
PostValidate_NoMissingCheck(q) ==
  IF ~isValidUrl(q.url) THEN Reject(ErrInvalidUrl)
  ELSE Accept(Options(q.width, q.height, q.quality, q.fullPage, q.waitUntil,
                      q.timeout))

\* app.post('/screenshot'): the synchronous part up to the call of
\* captureScreenshot
PostValidate(q) ==
  IF ~Truthy(q.url) THEN Reject(ErrUrlRequiredPost)
  ELSE IF ~isValidUrl(q.url) THEN Reject(ErrInvalidUrl)
  ELSE Accept(Options(q.width, q.height, q.quality, q.fullPage, q.waitUntil,
                      q.timeout))

Validate(q) == IF q.method = "GET" THEN GetValidate(q) ELSE PostValidate(q)

\* a destructuring default: used when the property is undefined
Default(v, d) == IF v = Undef THEN d ELSE v

\* a captureScreenshot that reads the options without defaults
Destructure_NoDefaults(o) == o

\* captureScreenshot's destructuring of options
Destructure(o) ==
  Options(Default(o.width, Num(1200)), Default(o.height, Num(800)),
          Default(o.quality, Num(80)), Default(o.fullPage, Bool(FALSE)),
          Default(o.waitUntil, Str(<<"networkidle">>)),
          Default(o.timeout, Num(30000)))

\* the switch without its default branch: playwrightWaitUntil stays
\* undefined for a value that is not listed
MapWaitUntil_NoDefault(w) ==
  IF w = Str(<<"load">>) THEN "load"
  ELSE IF w = Str(<<"domcontentloaded">>) THEN "domcontentloaded"
  ELSE IF w \in {Str(<<"networkidle0">>), Str(<<"networkidle2">>)}
       THEN "networkidle"
  ELSE "undefined"

\* the switch over waitUntil
MapWaitUntil(w) ==
  IF w = Str(<<"load">>) THEN "load"
  ELSE IF w = Str(<<"domcontentloaded">>) THEN "domcontentloaded"
  ELSE "networkidle"

\* fullPage compared with the boolean alone
IsFullPage_BooleanOnly(f) == f = Bool(TRUE)

\* screenshotOptions.fullPage
IsFullPage(f) == f = Str(<<"true">>) \/ f = Bool(TRUE)

(***************************************************************************)
(* State.                                                                  *)
(***************************************************************************)
VARIABLES
  req,        \* the request each handler invocation received
  hpc,        \* position of the route handler: idle, awaitRace, responded
  resp,       \* the response sent
  opts,       \* the options captureScreenshot destructured
  pc,         \* the await captureScreenshot is suspended at
  comp,       \* browser, context, page: none, open or closed
  closeCalls, \* number of close() calls issued per component
  primary,    \* completion of the try/catch, held while finally runs
  result,     \* settlement of screenshotPromise
  timer,      \* the setTimeout of timeoutPromise: unset, armed, fired
  race,       \* settlement of Promise.race
  calls,      \* arguments handed to the browser and to the encoder
  hung,       \* the awaited call of captureScreenshot never settles
  handle,     \* the variables browser, context, page: the request whose
              \* instance each refers to, 0 while undefined
  usedBy,     \* history: the requests that called a method on an instance
  hits,       \* the rate limiter's count of each client's requests in
              \* the client's current window
  health,     \* the response to each client's last GET /health
  admitted,   \* history: the requests of each client that reached a route
              \* handler in the client's current window
  sent,       \* history: the number of responses sent for the request
  unhandled,  \* history: the promises rejected with no reaction attached
  proc,       \* the server process: running or exited, its exit code, the
              \* last process event and the NODE_ENV read on it
  trace,      \* history: the pipeline steps started, in order
  events      \* history: the racing events that happened, in order

vars == <<req, hpc, resp, opts, pc, comp, closeCalls, primary, result, timer,
          race, calls, hung, handle, usedBy, hits, health, admitted, sent,
          unhandled, proc, trace, events>>

Pending == [st |-> "pending", msg |-> <<>>]

Fulfilled == [st |-> "fulfilled", msg |-> <<>>]

Rejected(m) == [st |-> "rejected", msg |-> m]

Components == {"browser", "context", "page"}

NoHandles == [browser |-> 0, context |-> 0, page |-> 0]

NoUsers == [browser |-> {}, context |-> {}, page |-> {}]

NoComps == [browser |-> "none", context |-> "none", page |-> "none"]

NoCalls == [browser |-> 0, context |-> 0, page |-> 0]

NoArgs == [viewport |-> <<>>, waitUntil |-> "", navTimeout |-> <<>>,
           fullPage |-> FALSE, clip |-> <<>>, quality |-> <<>>]

\* the process after app.listen
Started == [exited |-> FALSE, code |-> <<>>, last |-> "none", env |-> "unread"]

\* no request has arrived at any of the handler invocations R
InitOver(R) ==
  /\ req = [r \in R |-> NoRequest]
  /\ hpc = [r \in R |-> "idle"]
  /\ resp = [r \in R |-> NoResponse]
  /\ opts = [r \in R |-> NoOptions]
  /\ pc = [r \in R |-> "none"]
  /\ comp = [r \in R |-> NoComps]
  /\ closeCalls = [r \in R |-> NoCalls]
  /\ primary = [r \in R |-> Pending]
  /\ result = [r \in R |-> Pending]
  /\ timer = [r \in R |-> "unset"]
  /\ race = [r \in R |-> Pending]
  /\ calls = [r \in R |-> NoArgs]
  /\ hung = [r \in R |-> FALSE]
  /\ handle = [r \in R |-> NoHandles]
  /\ usedBy = [r \in R |-> NoUsers]
  /\ hits = [c \in Clients |-> 0]
  /\ health = [c \in Clients |-> NoResponse]
  /\ admitted = [c \in Clients |-> 0]
  /\ sent = [r \in R |-> 0]
  /\ unhandled = [r \in R |-> {}]
  /\ proc = Started
  /\ trace = [r \in R |-> <<>>]
  /\ events = [r \in R |-> <<>>]

Init == InitOver(Reqs)

(***************************************************************************)
(* captureScreenshot.                                                      *)
(***************************************************************************)
\* a catch clause that swallows the error and returns
Wrap_Swallow(m) == Fulfilled

\* the catch clause: throw new Error(`Screenshot failed: ${error.message}`)
Wrap(m) == Rejected(<<"Screenshot failed: ", m>>)

\* the pipeline with the image encoded before the bitmap is captured
AfterStep_EncodeFirst(s) ==
  CASE s = "launch"     -> "newContext"
    [] s = "newContext" -> "newPage"
    [] s = "newPage"    -> "goto"
    [] s = "goto"       -> "encode"
    [] s = "screenshot" -> "encode"

\* the step the pipeline awaits after step s has succeeded
AfterStep(s) ==
  CASE s = "launch"     -> "newContext"
    [] s = "newContext" -> "newPage"
    [] s = "newPage"    -> "goto"
    [] s = "goto"       -> "screenshot"
    [] s = "screenshot" -> "encode"

\* a finally block that closes the browser first
FinallyFrom_BrowserFirst(c) ==
  IF c.browser # "none" THEN "closeBrowser" ELSE "done"

\* the finally block from its first statement: the first close it awaits
FinallyFrom(c) ==
  IF c.page # "none" THEN "closePage"
  ELSE IF c.context # "none" THEN "closeContext"
  ELSE IF c.browser # "none" THEN "closeBrowser"
  ELSE "done"

\* the finally block after page.close() has returned
AfterClosePage(c) ==
  IF c.context # "none" THEN "closeContext"
  ELSE IF c.browser # "none" THEN "closeBrowser"
  ELSE "done"

\* the finally block after context.close() has returned
AfterCloseContext(c) == IF c.browser # "none" THEN "closeBrowser" ELSE "done"

\* the finally block after a close() has thrown: the inner catch logs the
\* warning and the block ends
AfterCloseFailure(c) == "done"

\* a finally block without the inner try/catch: the cleanup error m
\* replaces the completion of the try/catch
CleanupCompletion_Overrides(prim, m) == Rejected(<<m>>)

\* the completion of the try/catch after the inner catch has swallowed the
\* cleanup error m
CleanupCompletion(prim, m) == prim

\* the promise of the async function settles with the completion of the
\* try/catch once finally has run to its end
SettleWith(prim) == prim

\* a race that the last promise to settle wins
RaceSettle_LastWins(cur, new) == new

\* the handler awaiting screenshotPromise alone: the timer settles nothing
RaceSettle_IgnoresTimer(cur, new) ==
  IF cur = Pending /\ new # Rejected(MsgTimeout) THEN new ELSE cur

\* Promise.race settles with the first of its two promises to settle
RaceSettle(cur, new) == IF cur = Pending THEN new ELSE cur

Component(s) ==
  CASE s = "closePage"    -> "page"
    [] s = "closeContext" -> "context"
    [] s = "closeBrowser" -> "browser"

IsClose(s) == s \in {"closePage", "closeContext", "closeBrowser"}

\* browser, context and page declared at module level: one set of
\* variables for all invocations
LocalsOf_ModuleLevel(r) == 1

\* browser, context and page are declared inside captureScreenshot: every
\* invocation has variables of its own
LocalsOf(r) == r

\* the component the call awaited at step s is a method of
Target(s) ==
  CASE s = "newContext" -> "browser"
    [] s = "newPage" -> "context"
    [] s \in {"goto", "screenshot", "closePage"} -> "page"
    [] s = "closeContext" -> "context"
    [] s = "closeBrowser" -> "browser"
    [] OTHER -> "none"

\* the promises of a request
ScreenshotPromise == "screenshotPromise"

TimeoutPromise == "timeoutPromise"

\* a handler that awaits screenshotPromise alone
Raced_PipelineOnly == {ScreenshotPromise}

\* Promise.race([screenshotPromise, timeoutPromise]) attaches a reaction to
\* each promise handed to it
Raced == {ScreenshotPromise, TimeoutPromise}

\* the promises of request r rejected with no reaction attached, once the
\* promise p has settled with s
Unhandled(r, p, s) ==
  IF s.st = "rejected" /\ p \notin Raced THEN unhandled[r] \cup {p}
  ELSE unhandled[r]

\* captureScreenshot of request r moves on to await step s (or ends, when s
\* is "done"), with components c and try/catch completion prim
Advance(r, s, c, prim) ==
  /\ LET h == [k \in Components |->
                IF c[k] = "open" /\ comp[r][k] = "none" THEN r
                ELSE handle[LocalsOf(r)][k]]
         o == IF Target(s) = "none" THEN 0 ELSE h[Target(s)]
     IN /\ handle' = [handle EXCEPT ![LocalsOf(r)] = h]
        /\ usedBy' = IF o = 0 THEN usedBy
                      ELSE [usedBy EXCEPT ![o][Target(s)] = @ \cup {r}]
  /\ pc' = [pc EXCEPT ![r] = s]
  /\ comp' = [comp EXCEPT ![r] = c]
  /\ primary' = [primary EXCEPT ![r] = prim]
  /\ trace' = IF s = "done" THEN trace
              ELSE [trace EXCEPT ![r] = Append(@, s)]
  /\ closeCalls' = IF IsClose(s)
                   THEN [closeCalls EXCEPT ![r][Component(s)] = @ + 1]
                   ELSE closeCalls
  /\ result' = IF s = "done" THEN [result EXCEPT ![r] = SettleWith(prim)]
               ELSE result
  /\ race' = IF s = "done"
             THEN [race EXCEPT ![r] = RaceSettle(@, SettleWith(prim))]
             ELSE race
  /\ events' = IF s = "done" THEN [events EXCEPT ![r] = Append(@, "pipeline")]
               ELSE events
  /\ unhandled' = IF s = "done"
                  THEN [unhandled EXCEPT
                          ![r] = Unhandled(r, ScreenshotPromise, SettleWith(prim))]
                  ELSE unhandled

\* an awaited step has thrown error message m
Throw(r, m) == Advance(r, FinallyFrom(comp[r]), comp[r], Wrap(m))

\* browser.newContext({viewport: {width: parseInt(width), height: ...}})
ViewportOf(o) == <<parseInt(o.width), parseInt(o.height)>>

\* screenshotOptions.clip
ClipOf(o) ==
  IF IsFullPage(o.fullPage) THEN <<>>
  ELSE <<Num(0), Num(0), parseInt(o.width), parseInt(o.height)>>

\* errors chromium.launch throws
LaunchErrors == {"Executable doesn't exist", "Timeout 30000ms exceeded"}

\* a createBrowser that rethrows the error it caught
CreateBrowserError_Rethrow(e) == e

\* the catch clause of createBrowser: the message of the error it throws
\* for the launch error e
CreateBrowserError(e) == MsgLaunch

\* chromium.launch in createBrowser returns or throws
LaunchDone(r) ==
  /\ pc[r] = "launch"
  /\ ~hung[r]
  /\ \/ /\ Advance(r, AfterStep("launch"),
                   [comp[r] EXCEPT !.browser = "open"], Pending)
        /\ calls' = [calls EXCEPT ![r].viewport = ViewportOf(opts[r])]
     \/ /\ \E e \in LaunchErrors : Throw(r, CreateBrowserError(e))
        /\ UNCHANGED calls
  /\ UNCHANGED <<req, hpc, resp, opts, timer, hung, hits, health, admitted,
                 sent,
                 proc>>

\* browser.newContext returns or throws
NewContextDone(r) ==
  /\ pc[r] = "newContext"
  /\ ~hung[r]
  /\ \/ Advance(r, AfterStep("newContext"),
                [comp[r] EXCEPT !.context = "open"], Pending)
     \/ Throw(r, "newContext failed")
  /\ UNCHANGED <<req, hpc, resp, opts, timer, hung, calls, hits, health,
                 admitted, sent,
                 proc>>

\* context.newPage returns or throws
NewPageDone(r) ==
  /\ pc[r] = "newPage"
  /\ ~hung[r]
  /\ \/ /\ Advance(r, AfterStep("newPage"),
                   [comp[r] EXCEPT !.page = "open"], Pending)
        /\ calls' = [calls EXCEPT
                       ![r].waitUntil = MapWaitUntil(opts[r].waitUntil),
                       ![r].navTimeout = <<parseInt(opts[r].timeout)>>]
     \/ /\ Throw(r, "newPage failed")
        /\ UNCHANGED calls
  /\ UNCHANGED <<req, hpc, resp, opts, timer, hung, hits, health, admitted,
                 sent,
                 proc>>

\* page.goto returns, or throws a navigation error or its timeout
GotoDone(r) ==
  /\ pc[r] = "goto"
  /\ ~hung[r]
  /\ \/ /\ Advance(r, AfterStep("goto"), comp[r], Pending)
        /\ calls' = [calls EXCEPT
                       ![r].fullPage = IsFullPage(opts[r].fullPage),
                       ![r].clip = ClipOf(opts[r])]
     \/ /\ \E m \in {"Timeout exceeded", "net::ERR"} : Throw(r, m)
        /\ UNCHANGED calls
  /\ UNCHANGED <<req, hpc, resp, opts, timer, hung, hits, health, admitted,
                 sent,
                 proc>>

\* page.screenshot returns or throws
ScreenshotDone(r) ==
  /\ pc[r] = "screenshot"
  /\ ~hung[r]
  /\ \/ /\ Advance(r, AfterStep("screenshot"), comp[r], Pending)
        /\ calls' = [calls EXCEPT ![r].quality = <<parseInt(opts[r].quality)>>]
     \/ /\ Throw(r, "screenshot failed")
        /\ UNCHANGED calls
  /\ UNCHANGED <<req, hpc, resp, opts, timer, hung, hits, health, admitted,
                 sent,
                 proc>>

\* sharp(...).webp(...).toBuffer() returns or throws
EncodeDone(r) ==
  /\ pc[r] = "encode"
  /\ ~hung[r]
  /\ \/ Advance(r, FinallyFrom(comp[r]), comp[r], Fulfilled)
     \/ Throw(r, "encoding failed")
  /\ UNCHANGED <<req, hpc, resp, opts, timer, hung, calls, hits, health,
                 admitted, sent,
                 proc>>

\* page.close() returns or throws
ClosePageDone(r) ==
  /\ pc[r] = "closePage"
  /\ ~hung[r]
  /\ \/ LET c == [comp[r] EXCEPT !.page = "closed"]
        IN Advance(r, AfterClosePage(c), c, primary[r])
     \/ Advance(r, AfterCloseFailure(comp[r]), comp[r],
                CleanupCompletion(primary[r], "close failed"))
  /\ UNCHANGED <<req, hpc, resp, opts, timer, hung, calls, hits, health,
                 admitted, sent,
                 proc>>

\* context.close() returns or throws
CloseContextDone(r) ==
  /\ pc[r] = "closeContext"
  /\ ~hung[r]
  /\ \/ LET c == [comp[r] EXCEPT !.context = "closed"]
        IN Advance(r, AfterCloseContext(c), c, primary[r])
     \/ Advance(r, AfterCloseFailure(comp[r]), comp[r],
                CleanupCompletion(primary[r], "close failed"))
  /\ UNCHANGED <<req, hpc, resp, opts, timer, hung, calls, hits, health,
                 admitted, sent,
                 proc>>

\* browser.close() returns or throws
CloseBrowserDone(r) ==
  /\ pc[r] = "closeBrowser"
  /\ ~hung[r]
  /\ \/ Advance(r, "done", [comp[r] EXCEPT !.browser = "closed"], primary[r])
     \/ Advance(r, AfterCloseFailure(comp[r]), comp[r],
                CleanupCompletion(primary[r], "close failed"))
  /\ UNCHANGED <<req, hpc, resp, opts, timer, hung, calls, hits, health,
                 admitted, sent,
                 proc>>

\* the timeout option bounds the awaited call: chromium.launch is given
\* BROWSER_CONFIG.timeout, page.goto the request's timeout, which bounds it
\* only when it is a positive number; no other call is given a timeout
Bounded(s, args) ==
  \/ s = "launch"
  \/ s = "goto" /\ args.navTimeout[1] # NaN /\ args.navTimeout[1].n > 0

\* the call captureScreenshot awaits never settles
Hang(r) ==
  /\ pc[r] \notin {"none", "done"}
  /\ ~hung[r]
  /\ ~Bounded(pc[r], calls[r])
  /\ hung' = [hung EXCEPT ![r] = TRUE]
  /\ UNCHANGED <<req, hpc, resp, opts, pc, comp, closeCalls, primary, result,
                 timer, race, calls, handle, usedBy, hits, health, admitted,
                 sent, unhandled, trace, events,
                 proc>>

(***************************************************************************)
(* The route handlers.                                                     *)
(***************************************************************************)
\* a /screenshot request drawn from the set I arrives: the rate limiter
\* counts it and answers 429 when it is over the limit; else the handler
\* validates it and either answers 400 or calls captureScreenshot, which
\* runs up to its first await (chromium.launch), and arms the 60000 ms timer
Arrive(r, I) ==
  /\ hpc[r] = "idle"
  /\ \E q \in I :
       LET v == Validate(q)
           n == Hit(hits[q.ip])
       IN /\ req' = [req EXCEPT ![r] = q]
          /\ hits' = [hits EXCEPT ![q.ip] = n]
          /\ IF Limited(n)
             THEN /\ resp' = [resp EXCEPT ![r] = TooManyRequests]
                  /\ hpc' = [hpc EXCEPT ![r] = "responded"]
                  /\ sent' = [sent EXCEPT ![r] = @ + 1]
                  /\ UNCHANGED <<opts, pc, trace, timer, admitted>>
             ELSE /\ admitted' = [admitted EXCEPT ![q.ip] = @ + 1]
                  /\ IF v.accept
                     THEN /\ opts' = [opts EXCEPT ![r] = Destructure(v.options)]
                          /\ hpc' = [hpc EXCEPT ![r] = "awaitRace"]
                          /\ pc' = [pc EXCEPT ![r] = "launch"]
                          /\ trace' = [trace EXCEPT ![r] = <<"launch">>]
                          /\ timer' = [timer EXCEPT ![r] = "armed"]
                          /\ UNCHANGED <<resp, sent>>
                     ELSE /\ resp' = [resp EXCEPT ![r] = v.resp]
                          /\ hpc' = [hpc EXCEPT ![r] = "responded"]
                          /\ sent' = [sent EXCEPT ![r] = @ + 1]
                          /\ UNCHANGED <<opts, pc, trace, timer>>
  /\ UNCHANGED <<comp, closeCalls, primary, result, race, calls, hung, handle,
                 usedBy, health, unhandled, events,
                 proc>>

\* BROWSER_CONFIG.timeout, the time chromium.launch is given, in ms
LaunchTimeoutMs == 30000

\* the delay of the setTimeout of timeoutPromise, in ms
OverallTimeoutMs == 60000

\* the timer of request r can be due: chromium.launch, started in the same
\* tick as the timer, has settled before a timer longer than its timeout
TimerDue(r) == pc[r] = "launch" => OverallTimeoutMs <= LaunchTimeoutMs

\* a timer that also abandons the pipeline where it stands
TimerFire_Interrupts(r) ==
  /\ timer[r] = "armed"
  /\ TimerDue(r)
  /\ timer' = [timer EXCEPT ![r] = "fired"]
  /\ race' = [race EXCEPT ![r] = RaceSettle(@, Rejected(MsgTimeout))]
  /\ events' = [events EXCEPT ![r] = Append(@, "timer")]
  /\ pc' = [pc EXCEPT ![r] = "done"]
  /\ unhandled' = [unhandled EXCEPT
                     ![r] = Unhandled(r, TimeoutPromise, Rejected(MsgTimeout))]
  /\ UNCHANGED <<req, hpc, resp, opts, comp, closeCalls, primary, result,
                 calls, hung, handle, usedBy, hits, health, admitted, sent,
                 trace,
                 proc>>

\* the 60000 ms timer fires and rejects timeoutPromise
TimerFire(r) ==
  /\ timer[r] = "armed"
  /\ TimerDue(r)
  /\ timer' = [timer EXCEPT ![r] = "fired"]
  /\ race' = [race EXCEPT ![r] = RaceSettle(@, Rejected(MsgTimeout))]
  /\ events' = [events EXCEPT ![r] = Append(@, "timer")]
  /\ unhandled' = [unhandled EXCEPT
                     ![r] = Unhandled(r, TimeoutPromise, Rejected(MsgTimeout))]
  /\ UNCHANGED <<req, hpc, resp, opts, pc, comp, closeCalls, primary, result,
                 calls, hung, handle, usedBy, hits, health, admitted, sent,
                 trace,
                 proc>>

\* a handler whose catch block reports every failure as the timeout
ResponseOf_AlwaysTimeout(s) ==
  IF s.st = "fulfilled" THEN ImageResponse ELSE ServerError(MsgTimeout)

\* the response the handler sends once the race has settled
ResponseOf(s) ==
  IF s.st = "fulfilled" THEN ImageResponse ELSE ServerError(s.msg)

\* a handler that answers every settlement of the two promises
HandlerResume_PerSettlement(r) ==
  /\ hpc[r] # "idle"
  /\ sent[r] < Len(events[r])
  /\ resp' = [resp EXCEPT ![r] = ResponseOf(race[r])]
  /\ hpc' = [hpc EXCEPT ![r] = "responded"]
  /\ sent' = [sent EXCEPT ![r] = @ + 1]
  /\ UNCHANGED <<req, opts, pc, comp, closeCalls, primary, result, timer,
                 race, calls, hung, handle, usedBy, hits, health, admitted,
                 unhandled, trace, events,
                 proc>>

\* the handler resumes after await Promise.race(...)
HandlerResume(r) ==
  /\ hpc[r] = "awaitRace"
  /\ race[r] # Pending
  /\ resp' = [resp EXCEPT ![r] = ResponseOf(race[r])]
  /\ hpc' = [hpc EXCEPT ![r] = "responded"]
  /\ sent' = [sent EXCEPT ![r] = @ + 1]
  /\ UNCHANGED <<req, opts, pc, comp, closeCalls, primary, result, timer,
                 race, calls, hung, handle, usedBy, hits, health, admitted,
                 unhandled, trace, events,
                 proc>>

\* a GET /health request of the client c arrives: the rate limiter counts
\* it and answers 429 when it is over the limit; else the handler answers
\* with res.json
Health(c) ==
  LET n == Hit(hits[c])
  IN /\ hits' = [hits EXCEPT ![c] = n]
     /\ IF Limited(n)
        THEN /\ health' = [health EXCEPT ![c] = TooManyRequests]
             /\ UNCHANGED admitted
        ELSE /\ health' = [health EXCEPT ![c] = HealthResponse]
             /\ admitted' = [admitted EXCEPT ![c] = @ + 1]
     /\ UNCHANGED <<req, hpc, resp, opts, pc, comp, closeCalls, primary, result,
                    timer, race, calls, hung, handle, usedBy, sent, unhandled,
                    trace, events,
                 proc>>

\* windowMs has passed since the first counted request of the client c: the
\* limiter forgets the client's count
WindowExpire(c) ==
  /\ hits[c] > 0
  /\ hits' = [hits EXCEPT ![c] = 0]
  /\ admitted' = [admitted EXCEPT ![c] = 0]
  /\ UNCHANGED <<req, hpc, resp, opts, pc, comp, closeCalls, primary, result,
                 timer, race, calls, hung, handle, usedBy, health, sent,
                 unhandled, trace, events,
                 proc>>

(***************************************************************************)
(* The process events.                                                     *)
(***************************************************************************)
\* gracefulShutdown(signal) in the process p: process.exit(0)
gracefulShutdown(p, signal) ==
  [p EXCEPT !.exited = TRUE, !.code = <<0>>, !.last = signal]

Signals == {"SIGINT", "SIGTERM"}

\* values of process.env.NODE_ENV
NodeEnvs == {"production", "development", "undefined"}

\* an unhandledRejection listener that shuts down whatever NODE_ENV is
ExitsOnRejection_Always(e) == TRUE

\* the test of the unhandledRejection listener
ExitsOnRejection(e) == e # "production"

\* process.on(sig, ...) for SIGINT and SIGTERM
Signal(sig) ==
  /\ ~proc.exited
  /\ proc' = gracefulShutdown(proc, sig)
  /\ UNCHANGED <<req, hpc, resp, opts, pc, comp, closeCalls, primary, result,
                 timer, race, calls, hung, handle, usedBy, hits, health,
                 admitted, sent, unhandled, trace, events>>

\* process.on('uncaughtException', ...)
UncaughtException ==
  /\ ~proc.exited
  /\ proc' = gracefulShutdown(proc, "uncaughtException")
  /\ UNCHANGED <<req, hpc, resp, opts, pc, comp, closeCalls, primary, result,
                 timer, race, calls, hung, handle, usedBy, hits, health,
                 admitted, sent, unhandled, trace, events>>

\* process.on('unhandledRejection', ...), NODE_ENV being e
UnhandledRejection ==
  /\ ~proc.exited
  /\ \E e \in NodeEnvs :
       proc' = IF ExitsOnRejection(e)
               THEN gracefulShutdown([proc EXCEPT !.env = e],
                                     "unhandledRejection")
               ELSE [proc EXCEPT !.env = e, !.last = "unhandledRejection"]
  /\ UNCHANGED <<req, hpc, resp, opts, pc, comp, closeCalls, primary, result,
                 timer, race, calls, hung, handle, usedBy, hits, health,
                 admitted, sent, unhandled, trace, events>>

(***************************************************************************)
(* The requests explored.                                                  *)
(***************************************************************************)
UrlHttp == Str(<<"h", "t", "t", "p", ":", "/", "/", "a">>)

UrlHttpsUpper == Str(<<"H", "T", "T", "P", "S", ":", "/", "/", "b">>)

UrlFtp == Str(<<"f", "t", "p", ":", "/", "/", "a">>)

UrlNoScheme == Str(<<"n", "o", "t", "-", "a", "-", "u", "r", "l">>)

UrlNoHost == Str(<<"h", "t", "t", "p", ":", "/", "/">>)

UrlRelative == Str(<<"/", "a">>)

UrlEmpty == Str(<<>>)

Urls == {Undef, UrlEmpty, UrlHttp, UrlHttpsUpper, UrlFtp, UrlNoScheme,
         UrlNoHost, UrlRelative}

\* query-string values of width and height
QueryDims == {Undef, Str(<<"0">>), Str(<<"-", "5">>), Str(<<"9", "9">>),
              Str(<<"1", "0", "0">>), Str(<<"4", "0", "0", "0">>),
              Str(<<"4", "0", "0", "1">>), Str(<<"a", "b", "c">>)}

\* JSON values of options.width and options.height
BodyDims == {Undef, Num(0), Num(-5), Num(99), Num(100), Num(4000), Num(4001)}

GetRequests ==
  {Request("GET", u, w, h, Undef, Undef, Undef, Undef) :
     u \in Urls, w \in QueryDims, h \in {Undef, Str(<<"9", "9">>), Str(<<"6", "0", "0">>)}}

PostRequests ==
  {Request("POST", u, w, h, Undef, Undef, Undef, Undef) :
     u \in Urls, w \in BodyDims, h \in {Undef, Num(99), Num(600)}}

\* the requests of SpecV: every combination of url, width and height
\* query-string and JSON values of quality
QueryQualities == {Str(<<"0">>), Str(<<"1">>), Str(<<"1", "0", "0">>),
                   Str(<<"1", "0", "1">>)}

BodyQualities == {Num(0), Num(1), Num(100), Num(101)}

\* query-string and JSON values of timeout
QueryTimeouts == {Str(<<"0">>), Str(<<"4", "5", "0", "0", "0">>),
                  Str(<<"6", "0", "0", "0", "0">>),
                  Str(<<"1", "2", "0", "0", "0", "0">>)}

BodyTimeouts == {Num(0), Num(45000), Num(60000), Num(120000)}

\* requests that vary quality or timeout alone
OptionRequests ==
  {Request("GET", UrlHttp, Undef, Undef, v, Undef, Undef, Undef) :
     v \in QueryQualities}
  \cup {Request("POST", UrlHttp, Undef, Undef, v, Undef, Undef, Undef) :
          v \in BodyQualities}
  \cup {Request("GET", UrlHttp, Undef, Undef, Undef, Undef, Undef, v) :
          v \in QueryTimeouts}
  \cup {Request("POST", UrlHttp, Undef, Undef, Undef, Undef, Undef, v) :
          v \in BodyTimeouts}

\* query-string and JSON values of fullPage
QueryFullPages == {Str(<<"true">>), Str(<<"false">>)}

BodyFullPages == {Bool(TRUE), Bool(FALSE)} \cup QueryFullPages

\* values of waitUntil
WaitUntils == {Str(<<"load">>), Str(<<"domcontentloaded">>),
               Str(<<"networkidle0">>), Str(<<"networkidle2">>),
               Str(<<"networkidle">>), Str(<<"bogus">>)}

\* requests that vary fullPage or waitUntil alone
CaptureRequests ==
  {Request("GET", UrlHttp, Str(<<"8", "0", "0">>), Str(<<"6", "0", "0">>),
           Undef, v, Undef, Undef) : v \in QueryFullPages}
  \cup {Request("POST", UrlHttp, Num(800), Num(600), Undef, v, Undef, Undef) :
          v \in BodyFullPages}
  \cup {Request(m, UrlHttp, Undef, Undef, Undef, Undef, v, Undef) :
          m \in {"GET", "POST"}, v \in WaitUntils}

ValidationRequests ==
  GetRequests \cup PostRequests \cup OptionRequests \cup CaptureRequests

\* the requests of Spec: an accepted GET, an accepted POST, a rejected GET
PipelineRequests ==
  {Request("GET", UrlHttp, Str(<<"8", "0", "0">>), Str(<<"6", "0", "0">>),
           Undef, Undef, Undef, Undef),
   Request("POST", UrlHttpsUpper, Num(1920), Num(1080), Num(95), Bool(TRUE),
           Str(<<"networkidle0">>), Num(45000)),
   Request("GET", Undef, Undef, Undef, Undef, Undef, Undef, Undef)}

(***************************************************************************)
(* Specifications.                                                         *)
(***************************************************************************)
\* a step of the request r, its request drawn from I on arrival
Step(r, I) ==
  \/ Arrive(r, I)
  \/ LaunchDone(r)
  \/ NewContextDone(r)
  \/ NewPageDone(r)
  \/ GotoDone(r)
  \/ ScreenshotDone(r)
  \/ EncodeDone(r)
  \/ ClosePageDone(r)
  \/ CloseContextDone(r)
  \/ CloseBrowserDone(r)
  \/ Hang(r)
  \/ TimerFire(r)
  \/ HandlerResume(r)

Next == \E r \in Reqs : Step(r, PipelineRequests)

\* concurrent requests through the capture pipeline
Spec == Init /\ [][Next]_vars

NextV == Step(1, ValidationRequests)

\* one request, over every combination of url, width and height
SpecV == Init /\ [][NextV]_vars

\* the event loop runs every timer that is due and every continuation of a
\* settled promise; chromium.launch settles within its timeout; nothing
\* else makes the browser or the encoder answer
Fairness ==
  \A r \in Reqs :
    WF_vars(TimerFire(r)) /\ WF_vars(HandlerResume(r)) /\ WF_vars(LaunchDone(r))

SpecFair == Spec /\ Fairness

\* two handler invocations in progress at once
Pair == {1, 2}

\* the request of each of two concurrent invocations
ConcurrentRequests ==
  {Request("GET", UrlHttp, Str(<<"8", "0", "0">>), Str(<<"6", "0", "0">>),
           Undef, Undef, Undef, Undef)}

InitC == InitOver(Pair)

NextC == \E r \in Pair : Step(r, ConcurrentRequests)

\* two concurrent requests through the capture pipeline
SpecC == InitC /\ [][NextC]_vars

FairnessC ==
  \A r \in Pair :
    WF_vars(TimerFire(r)) /\ WF_vars(HandlerResume(r)) /\ WF_vars(LaunchDone(r))

SpecCFair == SpecC /\ FairnessC

\* the client that sends GET /health requests
Probing == {1}

\* a /screenshot request of either client
LimitRequests == {From(q, c) : q \in ConcurrentRequests, c \in Clients}

InitL == InitOver({1})

NextL ==
  \/ Step(1, LimitRequests)
  \/ \E c \in Probing : Health(c)
  \/ \E c \in Clients : WindowExpire(c)

\* one /screenshot request of either client among any number of GET /health
\* requests of client 1, behind the rate limiter
SpecL == InitL /\ [][NextL]_vars

\* a step of the request r while the process runs
Serve(r, I) == ~proc.exited /\ Step(r, I)

InitP == InitOver({1})

NextP ==
  \/ Serve(1, ConcurrentRequests)
  \/ \E sig \in Signals : Signal(sig)
  \/ UncaughtException
  \/ UnhandledRejection

\* one /screenshot request in a process that receives signals, uncaught
\* exceptions and unhandled rejections
SpecP == InitP /\ [][NextP]_vars

(***************************************************************************)
(* Properties.                                                             *)
(***************************************************************************)
Created(r) == {k \in Components : comp[r][k] # "none"}

Range(f) == {f[i] : i \in DOMAIN f}

\* the pipeline steps in the order of the source text
StepOrder == <<"launch", "newContext", "newPage", "goto", "screenshot",
               "encode", "closePage", "closeContext", "closeBrowser">>

Rank(s) == CHOOSE i \in 1..Len(StepOrder) : StepOrder[i] = s

TimeoutResponse == ServerError(MsgTimeout)

\* C1: once captureScreenshot has ended, on any exit path, close() has been
\* called exactly once on each of the page, the context and the browser
\* that were created, and at no time more than once.
C1_ReleasedExactlyOnce ==
  \A r \in Reqs :
    /\ \A k \in Components : closeCalls[r][k] <= 1
    /\ pc[r] = "done" => \A k \in Created(r) : closeCalls[r][k] = 1

\* C2: the response of an accepted request is that of the first of the two
\* racing events (the pipeline's completion, the timer's expiry), and a
\* response once sent is never changed by the later event.
C2_FirstEventDecides ==
  /\ [](\A r \in Reqs :
          (hpc[r] = "responded" /\ events[r] # <<>>) =>
            resp[r] = IF Head(events[r]) = "timer" THEN TimeoutResponse
                      ELSE ResponseOf(result[r]))
  /\ [][\A r \in Reqs : hpc[r] = "responded" => resp'[r] = resp[r]]_vars

\* the timer won, the response was sent, and the pipeline then ran to its
\* end with an image
C2_Witness ==
  \E r \in Reqs :
    /\ events[r] = <<"timer", "pipeline">>
    /\ hpc[r] = "responded"
    /\ resp[r] = TimeoutResponse
    /\ result[r] = Fulfilled

\* C3: when the timer won the race and the pipeline has run to its end,
\* close() has been called on the browser the request launched.
C3_TimeoutStillReleases ==
  \A r \in Reqs :
    (resp[r] = TimeoutResponse /\ pc[r] = "done" /\ comp[r].browser # "none")
      => closeCalls[r].browser = 1

\* C4 as stated: the release of the session is complete before the
\* encoding starts.
C4_ReleaseBeforeEncode ==
  \A r \in Reqs :
    "encode" \in Range(trace[r]) =>
      \A k \in Created(r) : comp[r][k] = "closed"

\* C4 as amended: the steps start in the order launch, newContext, newPage,
\* goto, screenshot, encode, closePage, closeContext, closeBrowser, each
\* step but a close only after every step before it; a close starts only
\* when the encoding is neither in flight nor still to come, and the one
\* step in flight is the last one started.
C4_StepOrder ==
  \A r \in Reqs :
    /\ \A i, j \in 1..Len(trace[r]) :
         i < j => Rank(trace[r][i]) < Rank(trace[r][j])
    /\ \A i \in 1..Len(trace[r]) :
         ~IsClose(trace[r][i]) => trace[r][i] = StepOrder[i]
    /\ pc[r] \notin {"none", "done"} => pc[r] = trace[r][Len(trace[r])]
    /\ \A k \in Components : closeCalls[r][k] > 0 => pc[r] # "encode"

\* every step has run, the encoding before the three closes
C4_Witness == \E r \in Reqs : trace[r] = StepOrder /\ pc[r] = "done"

\* the step whose failure gives the error message m
FailedStep(m) ==
  CASE m = MsgLaunch -> "launch"
    [] m = "newContext failed" -> "newContext"
    [] m = "newPage failed" -> "newPage"
    [] m \in {"Timeout exceeded", "net::ERR"} -> "goto"
    [] m = "screenshot failed" -> "screenshot"
    [] m = "encoding failed" -> "encode"

\* C5: when a pipeline step has failed, no later pipeline step has been
\* started, and close() has been called on every component that had been
\* acquired.
C5_FailureSkipsAndReleases ==
  \A r \in Reqs :
    (pc[r] = "done" /\ result[r].st = "rejected") =>
      /\ \A i \in 1..Len(trace[r]) :
           \/ IsClose(trace[r][i])
           \/ Rank(trace[r][i]) <= Rank(FailedStep(result[r].msg[2]))
      /\ \A k \in Created(r) : closeCalls[r][k] = 1

\* C6: close() is called on the browser only when the context, if one was
\* created, is closed, and on the context only when the page, if one was
\* created, is closed; the closes start in the order page, context,
\* browser.
C6_ReverseOrderRelease ==
  \A r \in Reqs :
    /\ closeCalls[r].browser > 0 =>
         comp[r].context \in {"none", "closed"} /\ comp[r].page \in {"none", "closed"}
    /\ closeCalls[r].context > 0 => comp[r].page \in {"none", "closed"}
    /\ \A i, j \in 1..Len(trace[r]) :
         (i < j /\ IsClose(trace[r][i])) =>
           (IsClose(trace[r][j]) /\ Rank(trace[r][i]) < Rank(trace[r][j]))

\* a failed capture after which page, context and browser were closed
C6_Witness ==
  \E r \in Reqs :
    /\ pc[r] = "done"
    /\ result[r].st = "rejected"
    /\ \A k \in Components : comp[r][k] = "closed" /\ closeCalls[r][k] = 1

\* C7: the completion of the try/catch is not changed while the finally
\* block runs, whether a close succeeds or throws, and captureScreenshot
\* settles with that completion: the image, or the primary error wrapped
\* by the catch clause.
C7_TeardownKeepsOutcome ==
  [][\A r \in Reqs :
       IsClose(pc[r]) =>
         /\ primary'[r] = primary[r]
         /\ pc'[r] = "done" => result'[r] = primary[r]]_vars

\* captureScreenshot returned its image although a close threw
C7_Witness ==
  \E r \in Reqs :
    /\ pc[r] = "done"
    /\ result[r] = Fulfilled
    /\ \E k \in Components : comp[r][k] = "open" /\ closeCalls[r][k] = 1

\* the url of the request is absent or empty
Missing(u) == u = Undef \/ u = UrlEmpty

\* the url parses as an absolute URL of scheme http or https
IsHttpUrl(u) ==
  ParseURL(u).ok /\ ParseURL(u).protocol \in {HttpProtocol, HttpsProtocol}

NoBrowserWork(r) ==
  /\ pc[r] = "none"
  /\ comp[r] = NoComps
  /\ trace[r] = <<>>
  /\ timer[r] = "unset"

\* C8: a request without url is answered by the 400 missing-parameter error
\* of its endpoint, and nothing of a browser session is acquired for it.
C8_MissingUrlRejected ==
  \A r \in Reqs :
    (req[r] # NoRequest /\ Missing(req[r].url)) =>
      /\ hpc[r] = "responded"
      /\ resp[r] = ClientError(IF req[r].method = "GET" THEN ErrUrlRequiredGet
                               ELSE ErrUrlRequiredPost)
      /\ NoBrowserWork(r)

C8_Witness ==
  \E r \in Reqs :
    /\ req[r] # NoRequest
    /\ req[r].method = "POST"
    /\ req[r].url = Undef
    /\ resp[r].status = 400

\* C9: a request whose url is present but is not an absolute http or https
\* URL is answered by the 400 invalid-URL error, and no browser is launched
\* and no navigation started for it.
C9_InvalidUrlRejected ==
  \A r \in Reqs :
    (req[r] # NoRequest /\ ~Missing(req[r].url) /\ ~IsHttpUrl(req[r].url)) =>
      /\ hpc[r] = "responded"
      /\ resp[r] = ClientError(ErrInvalidUrl)
      /\ NoBrowserWork(r)

C9_Witness ==
  \E r \in Reqs :
    /\ req[r] # NoRequest
    /\ req[r].url = UrlFtp
    /\ resp[r] = ClientError(ErrInvalidUrl)

\* the value is supplied and is an integer outside [100, 4000]
OutOfRange(v) ==
  /\ v # Undef
  /\ parseInt(v) # NaN
  /\ parseInt(v).n < 100 \/ parseInt(v).n > 4000

\* C10: a request with a valid url and a supplied integer width or height
\* outside [100, 4000] is answered by the 400 invalid-dimensions error, and
\* no navigation is started for it.
C10_BadDimensionsRejected ==
  \A r \in Reqs :
    (/\ req[r] # NoRequest
     /\ IsHttpUrl(req[r].url)
     /\ OutOfRange(req[r].width) \/ OutOfRange(req[r].height)) =>
      /\ resp[r] \in {ClientError(ErrWidth), ClientError(ErrHeight)}
      /\ "goto" \notin Range(trace[r])

\* the value is supplied and does not parse as an integer
NonNumeric(v) == v # Undef /\ parseInt(v) = NaN

\* C11: a request with a valid url and a supplied width or height that does
\* not parse as an integer is answered by the 400 invalid-dimensions error
\* and is not served with a substituted value.
C11_NonNumericDimensionsRejected ==
  \A r \in Reqs :
    (/\ req[r] # NoRequest
     /\ IsHttpUrl(req[r].url)
     /\ NonNumeric(req[r].width) \/ NonNumeric(req[r].height)) =>
      /\ resp[r] \in {ClientError(ErrWidth), ClientError(ErrHeight)}
      /\ NoBrowserWork(r)

\* the width or height rule of the validator: a supplied value parses as an
\* integer in [100, 4000]
DimensionBad(v) == NonNumeric(v) \/ OutOfRange(v)

\* the earliest rule the request violates, in the order url-missing,
\* url-invalid, width, height
FirstViolation(q) ==
  IF Missing(q.url) THEN "url-missing"
  ELSE IF ~IsHttpUrl(q.url) THEN "url-invalid"
  ELSE IF DimensionBad(q.width) THEN "width"
  ELSE IF DimensionBad(q.height) THEN "height"
  ELSE "none"

\* the number of rules the request violates
Violations(q) ==
  (IF ~IsHttpUrl(q.url) THEN 1 ELSE 0)
  + (IF DimensionBad(q.width) THEN 1 ELSE 0)
  + (IF DimensionBad(q.height) THEN 1 ELSE 0)

ErrorOf(rule, method) ==
  CASE rule = "url-missing" ->
         IF method = "GET" THEN ErrUrlRequiredGet ELSE ErrUrlRequiredPost
    [] rule = "url-invalid" -> ErrInvalidUrl
    [] rule = "width" -> ErrWidth
    [] rule = "height" -> ErrHeight

\* C12: a request that violates several validation rules is answered by the
\* error of the earliest rule it violates.
C12_FirstFailureWins ==
  \A r \in Reqs :
    (req[r] # NoRequest /\ Violations(req[r]) >= 2) =>
      resp[r] = ClientError(ErrorOf(FirstViolation(req[r]), req[r].method))

\* the value is absent or an integer in [lo, hi]
InRange(v, lo, hi) ==
  v = Undef \/ (parseInt(v) # NaN /\ parseInt(v).n >= lo /\ parseInt(v).n <= hi)

ValidRequest(q) ==
  /\ IsHttpUrl(q.url)
  /\ InRange(q.width, 100, 4000)
  /\ InRange(q.height, 100, 4000)
  /\ InRange(q.quality, 1, 100)

\* C13: a valid request is never answered by a 400; its response is the 200
\* image of type image/webp or a 500.
C13_ValidNeverClientError ==
  \A r \in Reqs :
    (req[r] # NoRequest /\ ValidRequest(req[r])) =>
      /\ hpc[r] # "idle"
      /\ resp[r].status # 400
      /\ hpc[r] = "responded" =>
           resp[r] = ImageResponse \/ resp[r].status = 500

\* a GET request of width 100 answered by the image
C13_Witness ==
  \E r \in Reqs :
    /\ req[r] # NoRequest
    /\ req[r].method = "GET"
    /\ req[r].width = Str(<<"1", "0", "0">>)
    /\ ValidRequest(req[r])
    /\ resp[r] = ImageResponse

\* captureScreenshot has ended after the navigation was started and before
\* the encoding was: page.goto or page.screenshot has thrown
NavOrCaptureFailed(r) ==
  /\ pc[r] = "done"
  /\ "goto" \in Range(trace[r])
  /\ "encode" \notin Range(trace[r])

AtMostOnce(t) == \A i, j \in 1..Len(t) : t[i] = t[j] => i = j

\* C16 as stated: no step is started twice, and a failed navigation or
\* capture is the error response of its request.
C16_FailureIsTheResponse ==
  \A r \in Reqs :
    /\ AtMostOnce(trace[r])
    /\ (NavOrCaptureFailed(r) /\ hpc[r] = "responded") =>
         /\ resp[r].status = 500
         /\ resp[r] = ServerError(result[r].msg)
         /\ FailedStep(result[r].msg[2]) \in {"goto", "screenshot"}

\* C16 as amended: no step is started twice, and a failed navigation or
\* capture is answered by a 500, which carries the failure's message
\* unless the timer had fired before captureScreenshot ended, when it is
\* the overall-timeout error.
C16_NoRetry ==
  \A r \in Reqs :
    /\ AtMostOnce(trace[r])
    /\ (NavOrCaptureFailed(r) /\ hpc[r] = "responded") =>
         /\ resp[r].status = 500
         /\ result[r].st = "rejected"
         /\ FailedStep(result[r].msg[2]) \in {"goto", "screenshot"}
         /\ resp[r] = IF Head(events[r]) = "timer" THEN TimeoutResponse
                      ELSE ServerError(result[r].msg)

\* a navigation failed once and its error was sent
C16_Witness ==
  \E r \in Reqs :
    /\ NavOrCaptureFailed(r)
    /\ resp[r] = ServerError(<<"Screenshot failed: ", "net::ERR">>)
    /\ trace[r] = <<"launch", "newContext", "newPage", "goto", "closePage",
                    "closeContext", "closeBrowser">>

C18_NavigationTimeoutReleases ==
  \A r \in Reqs :
    (pc[r] = "done" /\ primary[r] = Wrap("Timeout exceeded")) =>
      /\ result[r] = Rejected(<<"Screenshot failed: ", "Timeout exceeded">>)
      /\ hpc[r] = "responded" => resp[r].status = 500
      /\ \A k \in Created(r) : closeCalls[r][k] = 1

\* C19: the navigation timeout handed to page.goto is a number below the
\* 60000 ms of the overall timer.
C19_NavigationTimeoutBelowCeiling ==
  \A r \in Reqs :
    calls[r].navTimeout # <<>> =>
      /\ calls[r].navTimeout[1] # NaN
      /\ calls[r].navTimeout[1].n < OverallTimeoutMs

\* C20: the response to a request the timer won is the 500 with the message
\* 'Screenshot request timeout', and the response to a request whose
\* pipeline failed first, by a navigation timeout or otherwise, is a 500
\* with another message.
C20_TimeoutsDistinct ==
  \A r \in Reqs :
    (hpc[r] = "responded" /\ events[r] # <<>>) =>
      /\ Head(events[r]) = "timer" => resp[r] = ServerError(MsgTimeout)
      /\ (Head(events[r]) = "pipeline" /\ result[r].st = "rejected") =>
           /\ resp[r].status = 500
           /\ resp[r].message # MsgTimeout

\* a navigation timeout answered before the timer fired
C20_Witness ==
  \E r \in Reqs :
    /\ events[r] # <<>>
    /\ Head(events[r]) = "pipeline"
    /\ resp[r] = ServerError(<<"Screenshot failed: ", "Timeout exceeded">>)
    /\ timer[r] = "fired"

View(r) ==
  <<req[r], hpc[r], resp[r], opts[r], pc[r], comp[r], closeCalls[r],
    primary[r], result[r], timer[r], race[r], calls[r], hung[r],
    handle[LocalsOf(r)], usedBy[r], sent[r], unhandled[r], trace[r],
    events[r]>>

\* C15: a step of one request, a hang or a thrown error included, changes
\* nothing of the other request; and each of two concurrent requests is
\* eventually answered, whether or not the other one hangs.
C15_HungRequestIsolated ==
  /\ [][\A r1, r2 \in Pair :
          (r1 # r2 /\ View(r1)' # View(r1)) => View(r2)' = View(r2)]_vars
  /\ \A r \in Pair : (hpc[r] = "awaitRace") ~> (hpc[r] = "responded")

\* request 1 hangs in its screenshot call; request 2 has run to its end
\* and was answered with the image
C15_Witness ==
  /\ hung[1]
  /\ pc[1] = "screenshot"
  /\ pc[2] = "done"
  /\ resp[2] = ImageResponse
  /\ \A k \in Components : comp[2][k] = "closed"

\* a JSON value as the text of a query parameter
AsQuery(v) ==
  CASE v.t = "number" -> Str(ToStr(v))
    [] v.t = "boolean" -> Str(<<IF v.b THEN "true" ELSE "false">>)
    [] OTHER -> v

\* the request with the same values sent to the other endpoint
Twin(q) ==
  IF q.method = "GET" THEN [q EXCEPT !.method = "POST"]
  ELSE [q EXCEPT !.method = "GET", !.width = AsQuery(@),
                 !.height = AsQuery(@), !.quality = AsQuery(@),
                 !.fullPage = AsQuery(@), !.waitUntil = AsQuery(@),
                 !.timeout = AsQuery(@)]

\* what the browser and the encoder are asked to do under the options o
CaptureArgs(o) ==
  [viewport |-> ViewportOf(o), waitUntil |-> MapWaitUntil(o.waitUntil),
   navTimeout |-> parseInt(o.timeout), fullPage |-> IsFullPage(o.fullPage),
   clip |-> ClipOf(o), quality |-> parseInt(o.quality)]

\* the validation error e without the wording that names the endpoint
ErrorClass(e) == IF e = ErrUrlRequiredPost THEN ErrUrlRequiredGet ELSE e

\* C21: a request is validated as the request with the same values at the
\* other endpoint is: both are rejected with status 400 and the same
\* validation error, or both are accepted and ask the same of the browser
\* and the encoder.
C21_EndpointsAgree ==
  \A r \in Reqs :
    req[r] # NoRequest =>
      LET t == Validate(Twin(req[r]))
      IN IF t.accept
         THEN /\ hpc[r] # "idle"
              /\ resp[r].status # 400
              /\ CaptureArgs(opts[r]) = CaptureArgs(Destructure(t.options))
         ELSE /\ resp[r].status = 400
              /\ ErrorClass(resp[r].error) = ErrorClass(t.resp.error)

\* C22: the quality handed to the encoder lies in 1..100.
C22_QualityClamped ==
  \A r \in Reqs :
    calls[r].quality # <<>> =>
      /\ calls[r].quality[1] # NaN
      /\ calls[r].quality[1].n \in 1..100

FullPageFalse == {Undef, Bool(FALSE), Str(<<"false">>)}

FullPageTrue == {Bool(TRUE), Str(<<"true">>)}

\* C23: the screenshot of a request whose fullPage is absent, false or
\* 'false' is clipped to (0, 0, width, height), width and height being
\* those of the viewport; the screenshot of a request whose fullPage is
\* true or 'true' is a full-page one without clip.
C23_ClipFollowsFullPage ==
  \A r \in Reqs :
    "screenshot" \in Range(trace[r]) =>
      /\ req[r].fullPage \in FullPageFalse =>
           /\ ~calls[r].fullPage
           /\ calls[r].clip = <<Num(0), Num(0), calls[r].viewport[1],
                                calls[r].viewport[2]>>
      /\ req[r].fullPage \in FullPageTrue =>
           /\ calls[r].fullPage
           /\ calls[r].clip = <<>>

\* a GET request with fullPage=true has its full-page screenshot under way
C23_Witness ==
  \E r \in Reqs :
    /\ pc[r] = "screenshot"
    /\ req[r].method = "GET"
    /\ req[r].fullPage = Str(<<"true">>)
    /\ req[r].height = Str(<<"6", "0", "0">>)
    /\ calls[r].fullPage
    /\ calls[r].clip = <<>>

\* C24: the navigation waits for load when waitUntil is 'load', for
\* domcontentloaded when it is 'domcontentloaded', and for networkidle for
\* every other value, absent or unknown ones included.
C24_WaitPolicyTotal ==
  \A r \in Reqs :
    "goto" \in Range(trace[r]) =>
      LET w == req[r].waitUntil
      IN /\ w = Str(<<"load">>) => calls[r].waitUntil = "load"
         /\ w = Str(<<"domcontentloaded">>) =>
              calls[r].waitUntil = "domcontentloaded"
         /\ w \notin {Str(<<"load">>), Str(<<"domcontentloaded">>)} =>
              calls[r].waitUntil = "networkidle"

\* a navigation is under way for a request with an unknown waitUntil
C24_Witness ==
  \E r \in Reqs :
    /\ pc[r] = "goto"
    /\ req[r].waitUntil = Str(<<"bogus">>)
    /\ calls[r].waitUntil = "networkidle"

\* the value x is used for the option supplied as v: the default d when v
\* is absent, v itself when v is an integer in [lo, hi]
UsedFor(v, d, lo, hi, x) ==
  /\ v = Undef => x = Num(d)
  /\ (v # Undef /\ InRange(v, lo, hi)) => (x # NaN /\ ToStr(x) = ToStr(v))

\* C25: the viewport, the navigation timeout and the encoder quality are
\* the defaults 1200, 800, 30000 and 80 where the request leaves the option
\* out and the supplied value where it is in range; fullPage left out is
\* fullPage false.
C25_DefaultsApplied ==
  \A r \in Reqs :
    /\ calls[r].viewport # <<>> =>
         /\ UsedFor(req[r].width, 1200, 100, 4000, calls[r].viewport[1])
         /\ UsedFor(req[r].height, 800, 100, 4000, calls[r].viewport[2])
    /\ calls[r].navTimeout # <<>> =>
         UsedFor(req[r].timeout, 30000, 1, OverallTimeoutMs,
                 calls[r].navTimeout[1])
    /\ calls[r].quality # <<>> =>
         UsedFor(req[r].quality, 80, 1, 100, calls[r].quality[1])
    /\ ("screenshot" \in Range(trace[r]) /\ req[r].fullPage = Undef) =>
         ~calls[r].fullPage

\* a POST request without options is being encoded under the defaults
C25_Witness ==
  \E r \in Reqs :
    /\ pc[r] = "encode"
    /\ req[r].method = "POST"
    /\ req[r].width = Undef /\ req[r].height = Undef
    /\ req[r].quality = Undef /\ req[r].timeout = Undef
    /\ calls[r].viewport = <<Num(1200), Num(800)>>
    /\ calls[r].navTimeout = <<Num(30000)>>
    /\ calls[r].quality = <<Num(80)>>
    /\ ~calls[r].fullPage

\* C26: every GET /health is answered 200 with the health body, whatever
\* requests came before it.
C26_HealthAlwaysOk ==
  \A c \in Clients : health[c] \in {NoResponse, HealthResponse}

\* C27: in a client's window at most 100 of its requests reach a route
\* handler; a request that arrives when the client's count has reached 100
\* is answered 429 and starts no browser work; and a request is answered
\* 429 only when its own client's count has reached 100.
C27_RateLimited ==
  /\ [](\A c \in Clients : admitted[c] <= RateLimitMax)
  /\ [](\A r \in DOMAIN resp : resp[r] = TooManyRequests => NoBrowserWork(r))
  /\ [][\A r \in DOMAIN hpc :
          (hpc[r] = "idle" /\ hpc'[r] # "idle") =>
            (resp'[r] = TooManyRequests
               <=> hits[req'[r].ip] >= RateLimitMax)]_vars

\* client 1 has used up its window and was answered 429, and the request
\* of client 2 was served
C27_Witness ==
  /\ admitted[1] = RateLimitMax
  /\ health[1] = TooManyRequests
  /\ req[1] # NoRequest
  /\ req[1].ip = 2
  /\ resp[1] = ImageResponse

\* the state of the capture pipeline of request r
Pipeline(r) ==
  <<pc[r], comp[r], closeCalls[r], primary[r], result[r], calls[r], hung[r],
    trace[r]>>

\* the call captureScreenshot awaits returns or throws
PipelineStep(r) ==
  \/ LaunchDone(r)
  \/ NewContextDone(r)
  \/ NewPageDone(r)
  \/ GotoDone(r)
  \/ ScreenshotDone(r)
  \/ EncodeDone(r)
  \/ ClosePageDone(r)
  \/ CloseContextDone(r)
  \/ CloseBrowserDone(r)

\* C28: the firing of the timer and the sending of the response leave the
\* pipeline where it is; once the timer has won the race the handler can
\* answer at once, wherever the pipeline stands; and after the timeout
\* response the pipeline can still take its next step, up to its end.
C28_TimeoutIsAdvisory ==
  /\ [][\A r \in Reqs :
          (\/ timer[r] = "armed" /\ timer'[r] = "fired"
           \/ hpc[r] = "awaitRace" /\ sent'[r] # sent[r]) =>
            Pipeline(r)' = Pipeline(r)]_vars
  /\ [](\A r \in Reqs :
          (hpc[r] = "awaitRace" /\ race[r] = Rejected(MsgTimeout)) =>
            ENABLED HandlerResume(r))
  /\ [](\A r \in Reqs :
          (resp[r] = TimeoutResponse /\ pc[r] # "done" /\ ~hung[r]) =>
            ENABLED PipelineStep(r))

\* the timeout response has been sent and the pipeline, all its steps
\* started, is closing the browser
C28_Witness ==
  \E r \in Reqs :
    /\ resp[r] = TimeoutResponse
    /\ events[r] = <<"timer">>
    /\ trace[r] = StepOrder
    /\ pc[r] = "closeBrowser"

\* C29: at most one response is sent for a request, a request has been
\* answered exactly when one response has been sent, a response once sent
\* is followed by no other and is not changed; and every request that
\* arrived is answered.
C29_ExactlyOneResponse ==
  /\ [](\A r \in Reqs :
          /\ sent[r] <= 1
          /\ hpc[r] = "responded" <=> sent[r] = 1)
  /\ [][\A r \in Reqs :
          sent[r] = 1 => (sent'[r] = 1 /\ resp'[r] = resp[r])]_vars
  /\ \A r \in Reqs : (hpc[r] # "idle") ~> (sent[r] = 1)

\* the image was sent, and the timer nobody cleared fired afterwards
C29_Witness ==
  \E r \in Reqs :
    /\ events[r] = <<"pipeline", "timer">>
    /\ resp[r] = ImageResponse
    /\ sent[r] = 1

\* C30: no promise of a request is ever rejected without a reaction
\* attached to it.
C30_NoUnhandledRejection == \A r \in Reqs : unhandled[r] = {}

\* the timer won the race and the pipeline was rejected afterwards
C30_Witness ==
  \E r \in Reqs :
    /\ events[r] = <<"timer", "pipeline">>
    /\ result[r].st = "rejected"
    /\ timer[r] = "fired"
    /\ unhandled[r] = {}

\* C31: when the response sent for a request is that of the pipeline, the
\* 200 image or a 500 other than the timeout, close() has been called on
\* the browser the request launched and has settled.
C31_BrowserClosedAtResponse ==
  \A r \in Reqs :
    (/\ hpc[r] = "responded"
     /\ resp[r].status \in {200, 500}
     /\ resp[r] # TimeoutResponse
     /\ comp[r].browser # "none") =>
      /\ pc[r] = "done"
      /\ closeCalls[r].browser = 1

\* the response to a request whose browser could not be launched
LaunchFailureResponse == ServerError(<<"Screenshot failed: ", MsgLaunch>>)

\* C32: close() is only ever called on a component that was created; and
\* when the pipeline has ended without a browser, the launch was its only
\* step, no context or page was created, no close() was called, and the
\* request is answered 500 'Screenshot failed: Failed to create browser
\* instance', whatever error the launch threw.
C32_LaunchFailure ==
  \A r \in Reqs :
    /\ \A k \in Components : closeCalls[r][k] > 0 => comp[r][k] # "none"
    /\ (pc[r] = "done" /\ comp[r].browser = "none") =>
         /\ trace[r] = <<"launch">>
         /\ comp[r] = NoComps
         /\ closeCalls[r] = NoCalls
         /\ result[r] = Rejected(LaunchFailureResponse.message)
         /\ hpc[r] = "responded" => resp[r] = LaunchFailureResponse

\* the launch failed and the request was answered
C32_Witness ==
  \E r \in Reqs :
    /\ pc[r] = "done"
    /\ comp[r].browser = "none"
    /\ events[r] = <<"pipeline">>
    /\ resp[r] = LaunchFailureResponse

\* C33: the viewport handed to browser.newContext for a GET request has an
\* integer width and an integer height, both in 100..4000.
C33_GetViewportInRange ==
  \A r \in Reqs :
    (req[r] # NoRequest /\ req[r].method = "GET" /\ calls[r].viewport # <<>>)
      => \A i \in 1..2 :
           /\ calls[r].viewport[i] # NaN
           /\ calls[r].viewport[i].n \in 100..4000

\* the browser of a GET request with width=abc and height=600 has been
\* launched
C33_Witness ==
  \E r \in Reqs :
    /\ req[r].method = "GET"
    /\ req[r].width = Str(<<"a", "b", "c">>)
    /\ pc[r] = "newContext"
    /\ calls[r].viewport = <<Num(1200), Num(600)>>

\* all of the state but the process itself
Served ==
  <<req, hpc, resp, opts, pc, comp, closeCalls, primary, result, timer, race,
    calls, hung, handle, usedBy, hits, health, admitted, sent, unhandled,
    trace, events>>

\* C34: after SIGINT, SIGTERM or an uncaught exception the process has
\* exited with code 0; after an unhandled rejection it has exited, with
\* code 0, exactly when NODE_ENV is not 'production'; the exit closes
\* nothing and waits for nothing: it changes no request and no session and
\* can be taken wherever the pipeline stands; and a process that is still
\* running, after a rejection in production too, goes on with its request.
C34_ShutdownPolicy ==
  /\ [](proc.last \in Signals \cup {"uncaughtException"} =>
          proc.exited /\ proc.code = <<0>>)
  /\ [](proc.last = "unhandledRejection" =>
          /\ proc.exited <=> proc.env # "production"
          /\ proc.exited => proc.code = <<0>>)
  /\ [][proc' # proc => Served' = Served]_vars
  /\ [](~proc.exited =>
          /\ \A sig \in Signals : ENABLED Signal(sig)
          /\ ENABLED UncaughtException
          /\ hpc[1] = "idle" => ENABLED Serve(1, ConcurrentRequests)
          /\ (pc[1] \notin {"none", "done"} /\ ~hung[1]) =>
               ENABLED (~proc.exited /\ PipelineStep(1)))

\* SIGTERM has ended the process while the browser of a request was
\* navigating: the session is left open
C34_Witness ==
  /\ proc.exited
  /\ proc.last = "SIGTERM"
  /\ proc.code = <<0>>
  /\ pc[1] = "goto"
  /\ comp[1] = [browser |-> "open", context |-> "open", page |-> "open"]
  /\ closeCalls[1] = NoCalls

====
